---- MODULE Spec2Model ----
(***************************************************************************)
(* Model of the syntax-highlighting engine of novic:                       *)
(*   src/src/novic/syntax/registry.py   (language definitions, lexer)      *)
(*   src/src/novic/ui/code_editor.py    (_SyntaxHighlighter, CodeEditor)   *)
(*                                                                         *)
(* A text is a sequence of runs [c, n]: the character c repeated n times.  *)
(* Texts are kept canonical (n >= 1, adjacent runs differ in c), so        *)
(* equality of run sequences is equality of strings, and documents of      *)
(* 500,000 characters stay small values.  A token list is a sequence of   *)
(* groups [kind, val, start, end, count]: count abutting tokens of equal   *)
(* kind, lexeme and width, the first one (kind, val, start, end).  TokAt    *)
(* gives the 4-tuples of the list, NumTokens its length.                   *)
(***************************************************************************)
EXTENDS Integers, Sequences, FiniteSets, TLC

\* ---------------------------------------------------------------- bounds
MaxCalls == 3
MaxDepth == 2
MaxTimers == 2
MaxEdits == 1

\* ------------------------------------------------------ program constants
HardLimit == 500000
SampleLen == 50000
TokenCap == 4000
DebounceMs == 150
RetryMs == 50

NoLang == "none"

\* ------------------------------------------------------------------ texts
Run(c, n) == [c |-> c, n |-> n]

Min(a, b) == IF a < b THEN a ELSE b

RECURSIVE TextLen(_)
TextLen(t) == IF t = <<>> THEN 0 ELSE Head(t).n + TextLen(Tail(t))

\* t[:k]
RECURSIVE Prefix(_, _)
Prefix(t, k) ==
    IF t = <<>> \/ k <= 0 THEN <<>>
    ELSE IF Head(t).n >= k THEN <<Run(Head(t).c, k)>>
    ELSE <<Head(t)>> \o Prefix(Tail(t), k - Head(t).n)

\* absolute offset at which run i of t begins
RECURSIVE RunStart(_, _)
RunStart(t, i) == IF i <= 1 THEN 0 ELSE RunStart(t, i - 1) + t[i - 1].n

\* ------------------------------------------------------------ token lists
Group(kind, val, start, end, count) ==
    [kind |-> kind, val |-> val, start |-> start, end |-> end,
     count |-> count]

RECURSIVE NumTokens(_)
NumTokens(g) == IF g = <<>> THEN 0 ELSE Head(g).count + NumTokens(Tail(g))

\* the i-th token (1-based) of a token list, as the tuple the lexer appends
RECURSIVE TokAt(_, _)
TokAt(g, i) ==
    LET h == Head(g)
        w == h.end - h.start
    IN  IF i <= h.count
        THEN <<h.kind, h.val, h.start + (i - 1) * w, h.end + (i - 1) * w>>
        ELSE TokAt(Tail(g), i - h.count)

\* g[:k]
RECURSIVE TokPrefix(_, _)
TokPrefix(g, k) ==
    IF g = <<>> \/ k <= 0 THEN <<>>
    ELSE IF Head(g).count >= k THEN <<[Head(g) EXCEPT !.count = k]>>
    ELSE <<Head(g)>> \o TokPrefix(Tail(g), k - Head(g).count)

\* A list of integers is a sequence of progressions [first, step, count].
RECURSIVE NumInts(_)
NumInts(s) == IF s = <<>> THEN 0 ELSE Head(s).count + NumInts(Tail(s))

RECURSIVE IntAt(_, _)
IntAt(s, i) ==
    IF i <= Head(s).count THEN Head(s).first + (i - 1) * Head(s).step
    ELSE IntAt(Tail(s), i - Head(s).count)

\* ------------------------------------------------------------------ lexer
\* A pattern is a character class S used as [S]+ ("plus") or [S] ("one").
Plus(S) == [form |-> "plus", set |-> S]
One(S) == [form |-> "one", set |-> S]
NoValue == [form |-> "absent", set |-> {}]

\* the loop left at the first entry without a type or a pattern
RECURSIVE MasterPartsUntilBad(_)
MasterPartsUntilBad(tokens_spec) ==
    IF tokens_spec = <<>> THEN <<>>
    ELSE LET spec == Head(tokens_spec)
         IN  IF spec.type = "" \/ spec.pattern = NoValue
             THEN <<>>
             ELSE <<spec>> \o MasterPartsUntilBad(Tail(tokens_spec))

\* registry.py:40-47: entries without a type or a pattern are skipped, the
\* others become the alternatives of the master regex, in the given order.
RECURSIVE MasterParts(_)
MasterParts(tokens_spec) ==
    IF tokens_spec = <<>> THEN <<>>
    ELSE LET spec == Head(tokens_spec)
         IN  IF spec.type = "" \/ spec.pattern = NoValue
             THEN MasterParts(Tail(tokens_spec))
             ELSE <<spec>> \o MasterParts(Tail(tokens_spec))

\* registry.py:49
KwSets(entry) == entry.keywordTypes

\* index of the last alternative that matches at a position holding c, or 0
RECURSIVE LastMatch(_, _, _)
LastMatch(parts, c, i) ==
    IF i > Len(parts) THEN 0
    ELSE LET later == LastMatch(parts, c, i + 1)
         IN  IF later # 0 THEN later
             ELSE IF c \in parts[i].pattern.set THEN i ELSE 0

\* index of the first alternative that matches at a position holding c, or 0
RECURSIVE FirstMatch(_, _, _)
FirstMatch(parts, c, i) ==
    IF i > Len(parts) THEN 0
    ELSE IF c \in parts[i].pattern.set THEN i
    ELSE FirstMatch(parts, c, i + 1)

\* last run index j >= i such that runs i..j all lie in S
RECURSIVE SpanEnd(_, _, _)
SpanEnd(t, S, i) ==
    IF i < Len(t) /\ t[i + 1].c \in S THEN SpanEnd(t, S, i + 1) ELSE i

\* promotion of every match of a type that has keywords
PromoteWholeKind(kw_sets, kind, val) ==
    IF kind \in DOMAIN kw_sets THEN "kw" ELSE kind

\* registry.py:58-62
Promote(kw_sets, kind, val) ==
    IF kind \in DOMAIN kw_sets /\ val \in kw_sets[kind] THEN "kw" ELSE kind

\* matches searched for from every run, inside an earlier match too
RECURSIVE ScanOverlapping(_, _, _, _)
ScanOverlapping(parts, kw_sets, t, i) ==
    IF i > Len(t) THEN <<>>
    ELSE LET c == t[i].c
             p == FirstMatch(parts, c, 1)
             pos == RunStart(t, i)
         IN  IF p = 0 THEN ScanOverlapping(parts, kw_sets, t, i + 1)
             ELSE IF parts[p].pattern.form = "one"
             THEN <<Group(Promote(kw_sets, parts[p].type, <<Run(c, 1)>>),
                          <<Run(c, 1)>>, pos, pos + 1, t[i].n)>>
                  \o ScanOverlapping(parts, kw_sets, t, i + 1)
             ELSE LET j == SpanEnd(t, parts[p].pattern.set, i)
                      val == SubSeq(t, i, j)
                  IN  <<Group(Promote(kw_sets, parts[p].type, val), val,
                              pos, pos + TextLen(val), 1)>>
                      \o ScanOverlapping(parts, kw_sets, t, i + 1)

\* registry.py:55-63: master.finditer(text), scanning from run i.  An
\* alternative [S] matches every character of the run by itself, an
\* alternative [S]+ matches through the last following run inside S.
RECURSIVE Scan(_, _, _, _)
Scan(parts, kw_sets, t, i) ==
    IF i > Len(t) THEN <<>>
    ELSE LET c == t[i].c
             p == FirstMatch(parts, c, 1)
             pos == RunStart(t, i)
         IN  IF p = 0 THEN Scan(parts, kw_sets, t, i + 1)
             ELSE IF parts[p].pattern.form = "one"
             THEN <<Group(Promote(kw_sets, parts[p].type, <<Run(c, 1)>>),
                          <<Run(c, 1)>>, pos, pos + 1, t[i].n)>>
                  \o Scan(parts, kw_sets, t, i + 1)
             ELSE LET j == SpanEnd(t, parts[p].pattern.set, i)
                      val == SubSeq(t, i, j)
                  IN  <<Group(Promote(kw_sets, parts[p].type, val), val,
                              pos, pos + TextLen(val), 1)>>
                      \o Scan(parts, kw_sets, t, j + 1)

\* registry.py:51-64: the closure _lexer called with text t
LexerCall(master, kw_sets, t) ==
    IF master = <<>> THEN <<>> ELSE Scan(master, kw_sets, t, 1)

\* registry.py:35-66: the lexer built for a declarative record, applied to t
Lexer(entry, t) ==
    LexerCall(MasterParts(entry.regexTokens), KwSets(entry), t)

\* ------------------------------------------------- language definitions
\* Declarative records as load_all_languages reads them (registry.py:75-83):
\* name, extensions, regexTokens, keywordTypes, styles.
Color(c) == [color |-> c]
EmptyStyle == [k \in {} |-> Color("")]

AlphaEntry ==
    [name |-> "Alpha", extensions |-> <<"al">>,
     regexTokens |-> <<[type |-> "id", pattern |-> Plus({"a", "b"})],
                       [type |-> "punct", pattern |-> One({";"})]>>,
     keywordTypes |-> [k \in {"id"} |-> {<<Run("a", 1), Run("b", 1)>>}],
     styles |-> [k \in {"kw", "punct"} |->
                    IF k = "kw" THEN Color("#c586c0") ELSE Color("#d4d4d4")]]

BetaEntry ==
    [name |-> "Beta", extensions |-> <<"be">>,
     regexTokens |-> <<[type |-> "word", pattern |-> Plus({"a", ";"})]>>,
     keywordTypes |-> [k \in {} |-> {}],
     styles |-> [k \in {"word"} |-> Color("#dcdcaa")]]

Letters == {"f", "o", "r", "i", "e", "l", "s", "x", "y"}
Word(cs) == [i \in 1..Len(cs) |-> Run(cs[i], 1)]

DeltaEntry ==
    [name |-> "Delta", extensions |-> <<"de">>,
     regexTokens |-> <<[type |-> "id", pattern |-> Plus(Letters)]>>,
     keywordTypes |-> [k \in {"id"} |-> {Word(<<"f", "o", "r">>)}],
     styles |-> [k \in {"kw"} |-> Color("#569cd6")]]

Entries == {AlphaEntry, BetaEntry}
LangNames == {e.name : e \in Entries}
EntryOf(name) ==
    CHOOSE e \in Entries \cup {DeltaEntry} : e.name = name

\* registry.py:7-12, 82-85: the LanguageDefinition built from a record; its
\* lexer field is the closure of _build_lexer, applied with LangLexer.
LanguageDefinition(e) ==
    [name |-> e.name, extensions |-> e.extensions, style |-> e.styles]
LangLexer(name, t) == Lexer(EntryOf(name), t)
LangStyle(name) == LanguageDefinition(EntryOf(name)).style

\* -------------------------------------------------------------- documents
\* DocMax is exactly HardLimit long, holds more than TokenCap one-character
\* tokens and runs across the end of the sample; DocHuge is one longer.
DocSmall == <<Run("a", 1), Run("b", 1), Run(";", 1), Run("a", 2)>>
DocMax == <<Run(";", TokenCap + 1), Run("a", SampleLen - TokenCap - 2),
            Run(";", HardLimit - SampleLen + 1)>>
DocHuge == <<Run(";", HardLimit + 1)>>
Docs == {DocSmall, DocMax, DocHuge}

\* "          for       " and "aa;ab"
DocFor == <<Run(" ", 10)>> \o Word(<<"f", "o", "r">>) \o <<Run(" ", 7)>>
DocMixed == <<Run("a", 2), Run(";", 1), Run("a", 1), Run("b", 1)>>
QueryDocs == {DocFor, DocMixed, DocMax, DocHuge}
QueryLangs == {"Alpha", "Delta"}

\* blocks (block_start, len(text)) the view asks about
Blocks == {<<0, 20>>, <<12, 8>>, <<13, 7>>, <<0, 0>>, <<1, 3>>, <<2, 1>>,
           <<11, 0>>, <<3995, 10>>, <<4000, 2>>}

\* ------------------------------------------------------------------ state
VARIABLES
    text,              \* the document's text (document().toPlainText())
    tokens,            \* _SyntaxHighlighter._tokens
    style,             \* _SyntaxHighlighter._style
    starts,            \* _SyntaxHighlighter._starts
    pending_language,  \* _SyntaxHighlighter._pending_language
    debounce_timer,    \* _SyntaxHighlighter._debounce_timer: 0 is None,
                       \* otherwise an index into timers
    timers,            \* the QTimer objects created so far
    busy,              \* _SyntaxHighlighter._busy
    stack,             \* the running _run_refresh bodies, innermost last
    calls,             \* history: number of schedule_refresh calls so far
    edits,             \* history: number of edits of the document so far
    lastReq,           \* history: language of the latest schedule_refresh
    owed,              \* history: a request arrived while busy and no
                       \* refresh has started since
    epi,               \* history: the current burst of requests
    last,              \* history: the latest refresh that returned
    query,             \* the latest highlightBlock call since the snapshot
                       \* was last assigned to: its block and its setFormat
                       \* calls
    definition,        \* _build_lexer: the record a lexer is built for
    lexer,             \* the built closure: master and kw_sets
    lexed,             \* the latest call of the built lexer: text and result
    by_name,           \* SyntaxRegistry._by_name
    by_ext,            \* SyntaxRegistry._by_ext
    registered,        \* history: the definitions registered, in order
    files,             \* the records of the syntax_defs directory, in the
                       \* order glob yields them
    load,              \* load_all_languages: where it is in the loop
    SYNTAX_REGISTRY,   \* code_editor._SYNTAX_REGISTRY
    active_language,   \* CodeEditor._active_language
    host               \* history: the editor's latest operation

editor == <<text, tokens, style, starts, pending_language, debounce_timer,
            timers, busy, stack, calls, edits, lastReq, owed, epi,
            last, query>>
lexing == <<definition, lexer, lexed>>
loading == <<by_name, by_ext, registered, files, load, SYNTAX_REGISTRY>>
hosting == <<active_language, host>>
library == <<lexing, loading, hosting>>
vars == <<editor, library>>

snapshot == <<tokens, style, starts>>
hist == <<calls, edits, lastReq, owed, epi, last>>

\* epi describes the burst of requests in progress.  pure: all its requests
\* were non-immediate, the first was made from Idle and none arrived after
\* a timer had fired; n: their number; first: the language of the first;
\* runs: the languages of the refreshes entered since the first request.
NoBurst == [pure |-> FALSE, n |-> 0, first |-> NoLang, runs |-> <<>>]

NoRefresh ==
    [lang |-> NoLang, req |-> NoLang, via |-> "none", text0 |-> <<>>,
     text |-> <<>>, readOK |-> TRUE, lexed |-> FALSE, lexOK |-> TRUE,
     sample |-> <<>>, escaped |-> "none"]

NoQuery ==
    [block |-> <<>>, formats |-> <<>>, visited |-> <<>>, again |-> FALSE,
     same |-> TRUE]

NoDefinition ==
    [name |-> "", extensions |-> <<>>, regexTokens |-> <<>>,
     keywordTypes |-> [k \in {} |-> {}], styles |-> EmptyStyle]
NoLexer == [built |-> FALSE, master |-> <<>>, kw_sets |-> [k \in {} |-> {}]]
NotLexed == [called |-> FALSE, text |-> <<>>, result |-> <<>>]

EmptyDict == [k \in {} |-> {}]
NotLoading == [state |-> "start", pos |-> 1]

\* no lexer is being built
LexerIdle ==
    /\ definition = NoDefinition
    /\ lexer = NoLexer
    /\ lexed = NotLexed

\* registry.py:15-17, 33: the module's registry, nothing loaded
RegistryIdle ==
    /\ by_name = EmptyDict
    /\ by_ext = EmptyDict
    /\ registered = <<>>
    /\ files = <<>>
    /\ load = NotLoading
    /\ SYNTAX_REGISTRY = "unset"

\* the Optional _active_language is <<>> for None, <<lang>> otherwise
NoHostOp == [op |-> "none", arg |-> <<>>, pc |-> "done"]

\* no editor widget: the highlighter is driven directly
HostIdle ==
    /\ active_language = <<>>
    /\ host = NoHostOp

LibraryIdle == LexerIdle /\ RegistryIdle /\ HostIdle

\* code_editor.py:269-276: a highlighter just constructed
HighlighterFresh ==
    /\ tokens = <<>>
    /\ style = EmptyStyle
    /\ starts = <<>>
    /\ pending_language = NoLang
    /\ debounce_timer = 0
    /\ timers = <<>>
    /\ busy = FALSE
    /\ stack = <<>>
    /\ calls = 0
    /\ edits = 0
    /\ lastReq = NoLang
    /\ owed = FALSE
    /\ epi = NoBurst
    /\ last = NoRefresh
    /\ query = NoQuery

\* no editor is open
EditorIdle ==
    /\ text = <<>>
    /\ HighlighterFresh

\* code_editor.py:269-276
Init ==
    /\ text = <<>>
    /\ tokens = <<>>
    /\ style = EmptyStyle
    /\ starts = <<>>
    /\ pending_language = NoLang
    /\ debounce_timer = 0
    /\ timers = <<>>
    /\ busy = FALSE
    /\ stack = <<>>
    /\ calls = 0
    /\ edits = 0
    /\ lastReq = NoLang
    /\ owed = FALSE
    /\ epi = NoBurst
    /\ last = NoRefresh
    /\ query = NoQuery
    /\ LibraryIdle

\* ----------------------------------------------------------------- timers
NewTimer == [active |-> FALSE, interval |-> 0]

\* QTimer.start(msec): a running timer is stopped and started again
StartTimer(tms, i, msec) ==
    [tms EXCEPT ![i] = [active |-> TRUE, interval |-> msec]]

\* a timer left repeating: timing out does not disarm it
TimedOutRepeating(tms, i) == tms

\* code_editor.py:285 setSingleShot(True): timing out disarms the timer
TimedOut(tms, i) == [tms EXCEPT ![i].active = FALSE]

ArmedTimers == {i \in 1..Len(timers) : timers[i].active}

Idle == stack = <<>> /\ ~busy /\ ArmedTimers = {}

\* ------------------------------------------------------------ _run_refresh
\* the guard left out
IsBusyNever == FALSE

\* code_editor.py:291 "if self._busy"
IsBusy == busy

\* the ceiling itself taken as oversize
OversizeAtLimit(t) == TextLen(t) >= HardLimit

\* code_editor.py:306
Oversize(t) == TextLen(t) > HardLimit

\* the whole text lexed
SampleWhole(t) == t

\* code_editor.py:313
Sample(t) == Prefix(t, SampleLen)

\* the slice one token too long
CappedLoose(toks) == TokPrefix(toks, TokenCap + 1)

\* code_editor.py:315 "[:4000]"
Capped(toks) == TokPrefix(toks, TokenCap)

\* the index built from the tokens' end offsets
StartsOfEnds(toks) ==
    [i \in 1..Len(toks) |->
        [first |-> toks[i].end, step |-> toks[i].end - toks[i].start,
         count |-> toks[i].count]]

\* code_editor.py:320: [t[2] for t in self._tokens]
StartsOf(toks) ==
    [i \in 1..Len(toks) |->
        [first |-> toks[i].start, step |-> toks[i].end - toks[i].start,
         count |-> toks[i].count]]

Top == stack[Len(stack)]
SetTop(f) == [stack EXCEPT ![Len(stack)] = f]

\* the body entered whatever the pending language, None included
run_refresh_any(pl, tms, via, req) ==
    IF IsBusy
    THEN /\ timers' = IF debounce_timer # 0
                      THEN StartTimer(tms, debounce_timer, RetryMs)
                      ELSE tms
         /\ UNCHANGED <<busy, stack>>
    ELSE /\ Len(stack) < MaxDepth
         /\ timers' = tms
         /\ busy' = TRUE
         /\ stack' = Append(stack,
                [pc |-> "read", lang |-> pl, via |-> via, req |-> req,
                 text0 |-> text, text |-> <<>>, readOK |-> TRUE,
                 lexed |-> FALSE, lexOK |-> TRUE, sample |-> <<>>])

\* code_editor.py:290-302: _run_refresh up to the call of toPlainText.
\* pl and tms are the pending language and the timers as the caller left
\* them; via and req record who called and the latest requested language.
run_refresh(pl, tms, via, req) ==
    IF IsBusy
    THEN /\ timers' = IF debounce_timer # 0
                      THEN StartTimer(tms, debounce_timer, RetryMs)
                      ELSE tms
         /\ UNCHANGED <<busy, stack>>
    ELSE IF pl = NoLang
    THEN /\ timers' = tms
         /\ UNCHANGED <<busy, stack>>
    ELSE /\ Len(stack) < MaxDepth
         /\ timers' = tms
         /\ busy' = TRUE
         /\ stack' = Append(stack,
                [pc |-> "read", lang |-> pl, via |-> via, req |-> req,
                 text0 |-> text, text |-> <<>>, readOK |-> TRUE,
                 lexed |-> FALSE, lexOK |-> TRUE, sample |-> <<>>])

\* Other code (a re-entrant request, a timer callback of a nested event
\* loop, a block query) runs only between events or inside one of the three
\* calls a refresh makes: toPlainText, the lexer, rehighlight.  Between the
\* assignments of code_editor.py:308-310 and 318-320 nothing else runs.
InsideCall ==
    IF stack = <<>> THEN TRUE ELSE Top.pc \in {"read", "lex", "repaint"}

\* a new timer made for every request, the earlier one still running
NeedsTimerAlways(dt) == TRUE

\* code_editor.py:283 "if self._debounce_timer is None"
NeedsTimer(dt) == dt = 0

\* the immediate refresh run before the language is recorded
schedule_refresh_stale(language, immediate) ==
    /\ pending_language' = language
    /\ IF immediate
       THEN /\ run_refresh(pending_language, timers, "immediate", language)
            /\ UNCHANGED debounce_timer
       ELSE LET create == NeedsTimer(debounce_timer)
                tms == IF create THEN Append(timers, NewTimer) ELSE timers
                dt == IF create THEN Len(tms) ELSE debounce_timer
            IN  /\ create => Len(timers) < MaxTimers
                /\ debounce_timer' = dt
                /\ timers' = StartTimer(tms, dt, DebounceMs)
                /\ UNCHANGED <<busy, stack>>

\* the refresh run at once for every request, the timer armed as well
schedule_refresh_inline(language, immediate) ==
    /\ pending_language' = language
    /\ IF immediate
       THEN /\ run_refresh(language, timers, "immediate", language)
            /\ UNCHANGED debounce_timer
       ELSE LET create == NeedsTimer(debounce_timer)
                tms == IF create THEN Append(timers, NewTimer) ELSE timers
                dt == IF create THEN Len(tms) ELSE debounce_timer
            IN  /\ create => Len(timers) < MaxTimers
                /\ debounce_timer' = dt
                /\ run_refresh(language, StartTimer(tms, dt, DebounceMs),
                               "immediate", language)

\* the pending timer stopped by an immediate request
schedule_refresh_cancelling(language, immediate) ==
    /\ pending_language' = language
    /\ IF immediate
       THEN /\ run_refresh(language,
                           [i \in 1..Len(timers) |->
                               [timers[i] EXCEPT !.active = FALSE]],
                           "immediate", language)
            /\ UNCHANGED debounce_timer
       ELSE LET create == NeedsTimer(debounce_timer)
                tms == IF create THEN Append(timers, NewTimer) ELSE timers
                dt == IF create THEN Len(tms) ELSE debounce_timer
            IN  /\ create => Len(timers) < MaxTimers
                /\ debounce_timer' = dt
                /\ timers' = StartTimer(tms, dt, DebounceMs)
                /\ UNCHANGED <<busy, stack>>

\* code_editor.py:278-288
schedule_refresh(language, immediate) ==
    /\ pending_language' = language
    /\ IF immediate
       THEN /\ run_refresh(language, timers, "immediate", language)
            /\ UNCHANGED debounce_timer
       ELSE LET create == NeedsTimer(debounce_timer)
                tms == IF create THEN Append(timers, NewTimer) ELSE timers
                dt == IF create THEN Len(tms) ELSE debounce_timer
            IN  /\ create => Len(timers) < MaxTimers
                /\ debounce_timer' = dt
                /\ timers' = StartTimer(tms, dt, DebounceMs)
                /\ UNCHANGED <<busy, stack>>

\* a refresh body was entered by this step
Pushed == Len(stack') > Len(stack)

\* schedule_refresh is called: its effect and the history it leaves
Requested(language, immediate) ==
    /\ calls' = calls + 1
    /\ lastReq' = language
    /\ schedule_refresh(language, immediate)
    /\ owed' = IF Pushed THEN FALSE ELSE IF busy THEN TRUE ELSE owed
    /\ epi' = IF Idle
              THEN [pure |-> ~immediate, n |-> 1, first |-> language,
                    runs |-> IF Pushed THEN <<stack'[Len(stack')].lang>>
                             ELSE <<>>]
              ELSE IF epi.pure /\ ~immediate /\ stack = <<>>
                      /\ epi.runs = <<>>
              THEN [epi EXCEPT !.n = @ + 1]
              ELSE NoBurst
    /\ UNCHANGED <<snapshot, last, query>>

\* a caller (the editor, or code running inside a refresh) requests a refresh
ScheduleRefresh(language, immediate) ==
    /\ InsideCall
    /\ calls < MaxCalls
    /\ Requested(language, immediate)
    /\ UNCHANGED <<text, edits>>
    /\ UNCHANGED library

\* the single-shot timer i times out and calls _run_refresh
\* (code_editor.py:285-286)
TimerFire(i) ==
    /\ InsideCall
    /\ i \in ArmedTimers
    /\ run_refresh(pending_language, TimedOut(timers, i), "timer", lastReq)
    /\ owed' = IF Pushed THEN FALSE ELSE owed
    /\ epi' = IF Pushed /\ epi.pure
              THEN [epi EXCEPT !.runs = Append(@, stack'[Len(stack')].lang)]
              ELSE epi
    /\ UNCHANGED <<text, snapshot, pending_language, debounce_timer, calls,
                   edits, lastReq, last, query>>
    /\ UNCHANGED library

\* the record kept of a refresh that returns
Returned(f, esc) ==
    [lang |-> f.lang, req |-> f.req, via |-> f.via, text0 |-> f.text0,
     text |-> f.text, readOK |-> f.readOK, lexed |-> f.lexed,
     lexOK |-> f.lexOK, sample |-> f.sample, escaped |-> esc]

\* code_editor.py:301-313: toPlainText returns (or raises: text = ""), then
\* the size policy; the oversize branch assigns _tokens (308), the other
\* branch calls the lexer on the sample.
ReadReturn(ok) ==
    /\ stack # <<>>
    /\ Top.pc = "read"
    /\ LET txt == IF ok THEN text ELSE <<>>
       IN  IF Oversize(txt)
           THEN /\ tokens' = <<>>
                /\ UNCHANGED <<style, starts>>
                /\ stack' = SetTop([Top EXCEPT !.pc = "starts", !.text = txt,
                                               !.readOK = ok])
           ELSE /\ stack' = SetTop([Top EXCEPT !.pc = "lex", !.text = txt,
                                               !.readOK = ok,
                                               !.sample = Sample(txt)])
                /\ UNCHANGED snapshot
    /\ query' = NoQuery
    /\ UNCHANGED <<text, pending_language, debounce_timer, timers, busy, hist>>
    /\ UNCHANGED library

\* the lexer's exception not caught: only the finally clause runs
LexReturnUncaught(ok) ==
    /\ stack # <<>>
    /\ Top.pc = "lex"
    /\ IF ok
       THEN /\ tokens' = Capped(LangLexer(Top.lang, Top.sample))
            /\ stack' = SetTop([Top EXCEPT !.pc = "style", !.lexed = TRUE])
            /\ UNCHANGED <<style, starts, busy, last>>
       ELSE /\ busy' = FALSE
            /\ stack' = SubSeq(stack, 1, Len(stack) - 1)
            /\ last' = Returned([Top EXCEPT !.lexed = TRUE, !.lexOK = FALSE],
                                "lex")
            /\ UNCHANGED snapshot
    /\ query' = NoQuery
    /\ UNCHANGED <<text, pending_language, debounce_timer, timers, calls,
                   edits, lastReq, owed, epi>>
    /\ UNCHANGED library

\* code_editor.py:314-318: the lexer returns (or raises: tokens = []) and
\* _tokens is assigned.
LexReturn(ok) ==
    /\ stack # <<>>
    /\ Top.pc = "lex"
    /\ tokens' = IF ok THEN Capped(LangLexer(Top.lang, Top.sample)) ELSE <<>>
    /\ stack' = SetTop([Top EXCEPT !.pc = "style", !.lexed = TRUE,
                                   !.lexOK = ok])
    /\ query' = NoQuery
    /\ UNCHANGED <<text, style, starts, pending_language, debounce_timer,
                   timers, busy, hist>>
    /\ UNCHANGED library

\* rehighlight called once _style is assigned, _starts still the old list
AssignStyleThenRepaint ==
    /\ stack # <<>>
    /\ Top.pc = "style"
    /\ style' = IF Top.lexed THEN LangStyle(Top.lang) ELSE EmptyStyle
    /\ stack' = SetTop([Top EXCEPT !.pc = "repaint"])
    /\ query' = NoQuery
    /\ UNCHANGED <<text, tokens, starts, pending_language, debounce_timer,
                   timers, busy, hist>>
    /\ UNCHANGED library

\* code_editor.py:319 (after _tokens, before _starts) and 310 (oversize
\* branch: after _starts, before rehighlight): _style is assigned.
AssignStyle ==
    /\ stack # <<>>
    /\ Top.pc = "style"
    /\ style' = IF Top.lexed THEN LangStyle(Top.lang) ELSE EmptyStyle
    /\ stack' = SetTop([Top EXCEPT !.pc = IF Top.lexed THEN "starts"
                                          ELSE "repaint"])
    /\ query' = NoQuery
    /\ UNCHANGED <<text, tokens, starts, pending_language, debounce_timer,
                   timers, busy, hist>>
    /\ UNCHANGED library

\* code_editor.py:320 (after _style, then rehighlight is called) and 309
\* (oversize branch: after _tokens, before _style): _starts is assigned.
AssignStarts ==
    /\ stack # <<>>
    /\ Top.pc = "starts"
    /\ starts' = IF Top.lexed THEN StartsOf(tokens) ELSE <<>>
    /\ stack' = SetTop([Top EXCEPT !.pc = IF Top.lexed THEN "repaint"
                                          ELSE "style"])
    /\ query' = NoQuery
    /\ UNCHANGED <<text, tokens, style, pending_language, debounce_timer,
                   timers, busy, hist>>
    /\ UNCHANGED library

\* busy cleared on the normal path only, no finally clause
RepaintReturnBusyKept(ok) ==
    /\ stack # <<>>
    /\ Top.pc = "repaint"
    /\ busy' = ~ok
    /\ stack' = SubSeq(stack, 1, Len(stack) - 1)
    /\ last' = Returned(Top, IF ok THEN "none" ELSE "repaint")
    /\ UNCHANGED <<text, snapshot, pending_language, debounce_timer, timers,
                   calls, edits, lastReq, owed, epi, query>>
    /\ UNCHANGED library

\* code_editor.py:311-312, 321-323: rehighlight returns (or raises), the
\* finally clause clears busy and _run_refresh returns.
RepaintReturn(ok) ==
    /\ stack # <<>>
    /\ Top.pc = "repaint"
    /\ busy' = FALSE
    /\ stack' = SubSeq(stack, 1, Len(stack) - 1)
    /\ last' = Returned(Top, IF ok THEN "none" ELSE "repaint")
    /\ UNCHANGED <<text, snapshot, pending_language, debounce_timer, timers,
                   calls, edits, lastReq, owed, epi, query>>
    /\ UNCHANGED library

\* the user edits the document (between events, never inside a refresh)
SetText(d) ==
    /\ stack = <<>>
    /\ edits < MaxEdits
    /\ d # text
    /\ text' = d
    /\ edits' = edits + 1
    /\ UNCHANGED <<snapshot, pending_language, debounce_timer, timers, busy,
                   stack, calls, lastReq, owed, epi, last, query>>
    /\ UNCHANGED library

Next ==
    \/ \E language \in LangNames, immediate \in BOOLEAN :
          ScheduleRefresh(language, immediate)
    \/ \E i \in 1..Len(timers) : TimerFire(i)
    \/ \E ok \in BOOLEAN : ReadReturn(ok)
    \/ \E ok \in BOOLEAN : LexReturn(ok)
    \/ AssignStyle
    \/ AssignStarts
    \/ \E ok \in BOOLEAN : RepaintReturn(ok)
    \/ \E d \in Docs : SetText(d)

Spec == Init /\ [][Next]_vars

\* ------------------------------------------- requests without a language
\* The highlighter called with language None as well (schedule_refresh
\* takes any value), on a loaded document.
MaybeLangs == {"Alpha", NoLang}

InitNone ==
    /\ text = DocSmall
    /\ HighlighterFresh
    /\ LibraryIdle

NextNone ==
    \/ \E language \in MaybeLangs, immediate \in BOOLEAN :
          ScheduleRefresh(language, immediate)
    \/ \E i \in 1..Len(timers) : TimerFire(i)
    \/ ReadReturn(TRUE)
    \/ LexReturn(TRUE)
    \/ AssignStyle
    \/ AssignStarts
    \/ RepaintReturn(TRUE)

SpecNone == InitNone /\ [][NextNone]_vars

\* ---------------------------------------------------------- highlightBlock
\* bisect.bisect_left(a, x) on the list of integers a: lo and hi 0-based
RECURSIVE BisectLeft(_, _, _, _)
BisectLeft(a, x, lo, hi) ==
    IF lo >= hi THEN lo
    ELSE LET mid == (lo + hi) \div 2
         IN  IF IntAt(a, mid + 1) < x THEN BisectLeft(a, x, mid + 1, hi)
             ELSE BisectLeft(a, x, lo, mid)

\* the scan begun at the first token that starts inside the block
ScanStartNoLookBack(st, block_start) ==
    BisectLeft(st, block_start, 0, NumInts(st))

\* the scan begun at the first token of the list
ScanStartFromZero(st, block_start) == 0

\* code_editor.py:331-333: the 0-based index the scan begins at
ScanStart(st, block_start) ==
    LET idx == BisectLeft(st, block_start, 0, NumInts(st)) - 1
    IN  IF idx < 0 THEN 0 ELSE idx

\* a default color for a kind the style does not list
ColorOfDefault(sty, kind) ==
    IF kind \in DOMAIN sty THEN sty[kind].color ELSE "#ffffff"

\* code_editor.py:340-342: style.get(kind, {}).get('color'), "" for None
ColorOf(sty, kind) == IF kind \in DOMAIN sty THEN sty[kind].color ELSE ""

Max(a, b) == IF a > b THEN a ELSE b

\* code_editor.py:335-350: the loop from the 0-based index idx; acc holds the
\* setFormat calls <<start, count, color>> made and the indices visited
RECURSIVE ScanBlock(_, _, _, _, _, _)
ScanBlock(toks, sty, block_start, len, idx, acc) ==
    IF idx >= NumTokens(toks) THEN acc
    ELSE LET t == TokAt(toks, idx + 1)
             seen == [acc EXCEPT !.visited = Append(@, idx)]
             s == Max(t[3] - block_start, 0)
             e == Min(t[4] - block_start, len)
             color == ColorOf(sty, t[1])
         IN  IF t[3] >= block_start + len THEN seen
             ELSE IF t[4] > block_start /\ color # "" /\ e > s
             THEN ScanBlock(toks, sty, block_start, len, idx + 1,
                            [seen EXCEPT !.formats = Append(@, <<s, e - s, color>>)])
             ELSE ScanBlock(toks, sty, block_start, len, idx + 1, seen)

\* code_editor.py:325-350
highlightBlock(toks, st, sty, block_start, len) ==
    IF NumTokens(toks) = 0 THEN [formats |-> <<>>, visited |-> <<>>]
    ELSE ScanBlock(toks, sty, block_start, len, ScanStart(st, block_start),
                   [formats |-> <<>>, visited |-> <<>>])

\* a query that uses up the snapshot it formats from
HighlightBlockConsuming(b) ==
    /\ InsideCall
    /\ LET r == highlightBlock(tokens, starts, style, b[1], b[2])
       IN  query' = [block |-> b, formats |-> r.formats,
                     visited |-> r.visited, again |-> query.block = b,
                     same |-> query.block = b => query.formats = r.formats]
    /\ tokens' = <<>>
    /\ starts' = <<>>
    /\ UNCHANGED <<text, style, pending_language, debounce_timer, timers,
                   busy, stack, hist>>
    /\ UNCHANGED library

\* the view paints a block: between events or inside rehighlight
HighlightBlock(b) ==
    /\ InsideCall
    /\ LET r == highlightBlock(tokens, starts, style, b[1], b[2])
       IN  query' = [block |-> b, formats |-> r.formats,
                     visited |-> r.visited, again |-> query.block = b,
                     same |-> query.block = b => query.formats = r.formats]
    /\ UNCHANGED <<text, snapshot, pending_language, debounce_timer, timers,
                   busy, stack, hist>>
    /\ UNCHANGED library

\* an editor whose document is loaded, its languages applied at once
InitQuery ==
    /\ text \in QueryDocs
    /\ tokens = <<>>
    /\ style = EmptyStyle
    /\ starts = <<>>
    /\ pending_language = NoLang
    /\ debounce_timer = 0
    /\ timers = <<>>
    /\ busy = FALSE
    /\ stack = <<>>
    /\ calls = 0
    /\ edits = 0
    /\ lastReq = NoLang
    /\ owed = FALSE
    /\ epi = NoBurst
    /\ last = NoRefresh
    /\ query = NoQuery
    /\ LibraryIdle

NextQuery ==
    \/ \E language \in QueryLangs : ScheduleRefresh(language, TRUE)
    \/ \E ok \in BOOLEAN : ReadReturn(ok)
    \/ \E ok \in BOOLEAN : LexReturn(ok)
    \/ AssignStyle
    \/ AssignStarts
    \/ RepaintReturn(TRUE)
    \/ \E b \in Blocks : HighlightBlock(b)

SpecQuery == InitQuery /\ [][NextQuery]_vars

\* ----------------------------------------------------------------- claims

\* C1  Debounce coalescing: a burst of N >= 1 non-immediate requests that
\* starts from Idle, each request arriving before the timer has fired,
\* executes no refresh while the timer is armed and, once the timer has
\* fired, exactly one refresh, with the language of the last request.
DebounceCoalescing ==
    epi.pure =>
        IF ArmedTimers # {} THEN epi.runs = <<>> ELSE epi.runs = <<lastReq>>

\* a burst of several requests with different languages has been served
CoalescedBurst ==
    /\ Idle
    /\ epi.pure
    /\ epi.n >= 2
    /\ epi.first # lastReq
    /\ epi.runs = <<lastReq>>
    /\ last.lang = lastReq

\* C2  Busy guard: at most one refresh body is active at any time, under
\* every interleaving of requests, timer firings and re-entrant calls, and
\* busy is set for as long as it runs.
BusyGuard == Len(stack) <= 1 /\ (stack # <<>> => busy)

\* a request arrived inside a running refresh and no second body was entered
ReentrantCallDeferred == Len(stack) = 1 /\ owed /\ Top.pc = "repaint"

\* C3  A request that arrives while busy is never dropped: until a refresh
\* is entered after it, a timer stays armed.
RequestWhileBusyKeepsTimer == owed => ArmedTimers # {}

\* C4  Superseding: every refresh uses the language of the latest request
\* made before it started, and at most one timer is armed at any time.
SupersedingCancelsStale ==
    /\ \A k \in 1..Len(stack) : stack[k].lang = stack[k].req
    /\ last.lang = last.req
    /\ Cardinality(ArmedTimers) <= 1

\* a refresh runs for the second language of a burst, the first superseded
SupersededRefreshRuns ==
    /\ stack # <<>>
    /\ epi.pure
    /\ epi.n >= 2
    /\ epi.first # Top.lang
    /\ Top.lang = lastReq
    /\ Top.via = "timer"

\* The snapshot the size policy and the token cap prescribe for a refresh
\* that reads txt and lexes with lang (lexOK: the lexer returned).
SnapshotIs(lang, txt, lexOK) ==
    IF TextLen(txt) > HardLimit
    THEN NumTokens(tokens) = 0 /\ NumInts(starts) = 0 /\ DOMAIN style = {}
    ELSE LET raw == IF lexOK THEN LangLexer(lang, Prefix(txt, SampleLen))
                    ELSE <<>>
             n == Min(TokenCap, NumTokens(raw))
         IN  /\ NumTokens(tokens) = n
             /\ NumInts(starts) = n
             /\ \A i \in 1..n :
                   /\ TokAt(tokens, i) = TokAt(raw, i)
                   /\ IntAt(starts, i) = TokAt(raw, i)[3]
             /\ style = LangStyle(lang)

\* C5  Immediate refresh is synchronous: once an immediate request made
\* while not busy has returned, the snapshot is the size policy and token
\* cap applied to lexing the document text of that moment with the
\* requested language.
ImmediateIsSynchronous ==
    (stack = <<>> /\ last.via = "immediate" /\ last.readOK)
        => SnapshotIs(last.req, last.text0, last.lexOK)

\* an immediate request has returned with tokens of the new language
ImmediateInstalledTokens ==
    /\ stack = <<>>
    /\ last.via = "immediate"
    /\ last.readOK /\ last.lexOK
    /\ last.text0 = text
    /\ NumTokens(tokens) > 0
    /\ ArmedTimers = {}

\* C6  Eventual consistency: in Idle after some request, the snapshot is
\* the size policy and token cap applied to lexing the text read by the
\* latest refresh with the latest requested language.
QuietPeriodConsistent ==
    (Idle /\ lastReq # NoLang)
        => SnapshotIs(lastReq, last.text, last.lexOK)

\* C7  Oversize guard: a refresh of a document longer than HardLimit does
\* not call the lexer and installs zero tokens and zero starts, whatever
\* the language; a document of at most HardLimit characters is lexed.
OversizeGuard ==
    (stack = <<>> /\ last.via # "none") =>
        IF TextLen(last.text) > HardLimit
        THEN ~last.lexed /\ NumTokens(tokens) = 0 /\ NumInts(starts) = 0
        ELSE last.lexed

\* a refresh of an oversize document has returned
OversizeRefreshed ==
    /\ stack = <<>>
    /\ TextLen(last.text) > HardLimit
    /\ last.lang = "Alpha"
    /\ tokens = <<>>

\* C8  Token cap: the snapshot never holds more than TokenCap tokens, and
\* after a refresh whose lexer returned n tokens for the sample it holds
\* the first min(TokenCap, n) of them, in order, no error raised.
TokenCapHolds ==
    /\ NumTokens(tokens) <= TokenCap
    /\ (stack = <<>> /\ last.lexed /\ last.lexOK) =>
          LET raw == LangLexer(last.lang, last.sample)
          IN  /\ NumTokens(tokens) = Min(TokenCap, NumTokens(raw))
              /\ \A i \in 1..NumTokens(tokens) :
                    TokAt(tokens, i) = TokAt(raw, i)
              /\ last.escaped # "lex"

\* a refresh whose lexer returned more than TokenCap tokens has returned
ExcessTokensDropped ==
    /\ stack = <<>>
    /\ last.lexed /\ last.lexOK
    /\ NumTokens(LangLexer(last.lang, last.sample)) > TokenCap
    /\ NumTokens(tokens) = TokenCap

\* C9  Sample prefix: the lexer is given the first SampleLen characters of
\* the text that was read, so no token of the snapshot ends beyond them.
SamplePrefix ==
    /\ \A k \in 1..Len(stack) :
          stack[k].pc = "lex" => stack[k].sample = Prefix(stack[k].text, SampleLen)
    /\ last.lexed => last.sample = Prefix(last.text, SampleLen)
    /\ \A i \in 1..NumTokens(tokens) : TokAt(tokens, i)[4] <= SampleLen

\* a document longer than the sample was lexed up to the sample's end
LexedUpToSampleEnd ==
    /\ stack = <<>>
    /\ last.lexed /\ last.lexOK
    /\ TextLen(last.text) > SampleLen
    /\ NumTokens(tokens) > 0
    /\ TokAt(tokens, NumTokens(tokens))[4] = SampleLen

\* C10  Lex-time failure is contained: a refresh whose lexer raised
\* installs zero tokens, its error does not leave _run_refresh, and busy
\* is false once the refresh has returned.
LexFailureContained ==
    (stack = <<>> /\ last.lexed /\ ~last.lexOK) =>
        /\ NumTokens(tokens) = 0
        /\ NumInts(starts) = 0
        /\ last.escaped # "lex"
        /\ ~busy

\* the lexer raised, the refresh returned normally with an empty snapshot
LexFailureRecovered ==
    /\ stack = <<>>
    /\ last.lexed /\ ~last.lexOK
    /\ last.escaped = "none"
    /\ TextLen(last.text) > 0
    /\ tokens = <<>>
    /\ ~busy

\* --------------------------------------------------------- _build_lexer
MaxSpecs == 2      \* entries of a record's regexTokens list
MaxRuns == 3       \* runs of equal characters in a lexed text
RunLens == {1, 2}

\* pattern entries: two that match at an "a", one without a type, one
\* without a pattern
SpecPool ==
    {[type |-> "id", pattern |-> Plus({"a", "b"})],
     [type |-> "a1", pattern |-> One({"a"})],
     [type |-> "punct", pattern |-> One({";"})],
     [type |-> "", pattern |-> One({";"})],
     [type |-> "sp", pattern |-> NoValue]}

SpecLists ==
    {l \in UNION {[1..n -> SpecPool] : n \in 0..MaxSpecs} :
        \A i, j \in DOMAIN l : i # j => l[i] # l[j]}

KwMaps ==
    {[k \in {} |-> {}],
     [k \in {"id"} |-> {Word(<<"a", "b">>)}],
     [k \in {"id", "a1"} |-> IF k = "id" THEN {Word(<<"b">>), Word(<<"a", "b">>)}
                              ELSE {Word(<<"a">>)}]}

\* "id" with the keywords if and else; the text "if x else y"
IfElseEntry ==
    [name |-> "IfElse", extensions |-> <<"ie">>,
     regexTokens |-> <<[type |-> "id", pattern |-> Plus(Letters)]>>,
     keywordTypes |-> [k \in {"id"} |-> {Word(<<"i", "f">>),
                                         Word(<<"e", "l", "s", "e">>)}],
     styles |-> EmptyStyle]
DocIfElse ==
    Word(<<"i", "f", " ", "x", " ", "e", "l", "s", "e", " ", "y">>)

LexDefinitions ==
    {[name |-> "Probe", extensions |-> <<"pr">>, regexTokens |-> l,
      keywordTypes |-> k, styles |-> EmptyStyle] :
        l \in SpecLists, k \in KwMaps} \cup {IfElseEntry}

\* texts over a, b and ; as runs, no two neighbouring runs of one character
LexTexts ==
    {t \in UNION {[1..n -> {Run(c, k) : c \in {"a", "b", ";"}, k \in RunLens}] :
                     n \in 0..MaxRuns} :
        \A i \in 1..(Len(t) - 1) : t[i].c # t[i + 1].c} \cup {DocIfElse}

InitLexer ==
    /\ EditorIdle
    /\ RegistryIdle
    /\ HostIdle
    /\ definition \in LexDefinitions
    /\ lexer = NoLexer
    /\ lexed = NotLexed

\* registry.py:35-49, 66: _build_lexer(entry) returns the closure
BuildLexer ==
    /\ ~lexer.built
    /\ lexer' = [built |-> TRUE,
                 master |-> MasterParts(definition.regexTokens),
                 kw_sets |-> KwSets(definition)]
    /\ UNCHANGED <<editor, definition, lexed, loading, hosting>>

\* registry.py:51-64: the closure is called with a text
CallLexer(t) ==
    /\ lexer.built
    /\ ~lexed.called
    /\ lexed' = [called |-> TRUE, text |-> t,
                 result |-> LexerCall(lexer.master, lexer.kw_sets, t)]
    /\ UNCHANGED <<editor, definition, lexer, loading, hosting>>

NextLexer ==
    \/ BuildLexer
    \/ \E t \in LexTexts : CallLexer(t)

SpecLexer == InitLexer /\ [][NextLexer]_vars

\* ------------------------------------------------------- SyntaxRegistry
MaxRegs == 3       \* register calls
MaxFiles == 3      \* records in the syntax_defs directory

\* Names and extensions are tuples of characters.  str.lower():
LowerChar(c) ==
    CASE c = "P" -> "p" [] c = "Y" -> "y" [] c = "W" -> "w"
      [] c = "J" -> "j" [] c = "S" -> "s" [] OTHER -> c
Lower(str) == [i \in 1..Len(str) |-> LowerChar(str[i])]

\* d[k] = v
Put(d, k, v) == [x \in DOMAIN d \cup {k} |-> IF x = k THEN v ELSE d[x]]

\* registry.py:21-22: for ext in lang.extensions: _by_ext[ext.lower()] = lang
RECURSIVE PutExts(_, _, _)
PutExts(d, exts, lang) ==
    IF exts = <<>> THEN d
    ELSE PutExts(Put(d, Lower(Head(exts)), lang), Tail(exts), lang)

\* registry.py:19-22
register(lang) ==
    /\ by_name' = Put(by_name, Lower(lang.name), lang)
    /\ by_ext' = PutExts(by_ext, lang.extensions, lang)
    /\ registered' = Append(registered, lang)

\* the lookup by the name as given
getExact(name) ==
    IF name \in DOMAIN by_name THEN <<by_name[name]>> ELSE <<>>

\* registry.py:27-28; the Optional result is <<>> for None, <<lang>> else
get(name) ==
    IF Lower(name) \in DOMAIN by_name THEN <<by_name[Lower(name)]>> ELSE <<>>

\* registry.py:24-25
get_for_extension(ext) ==
    IF Lower(ext) \in DOMAIN by_ext THEN <<by_ext[Lower(ext)]>> ELSE <<>>

Tagged(tag) == [k \in {"kw"} |-> Color(tag)]
Definitions ==
    {[name |-> <<"P", "y">>, extensions |-> <<<<"P", "Y">>, <<"p", "y", "w">>>>,
      style |-> Tagged("#1")],
     [name |-> <<"p", "y">>, extensions |-> <<<<"p", "y">>>>,
      style |-> Tagged("#2")],
     [name |-> <<"P", "Y">>, extensions |-> <<<<"P", "y", "W">>>>,
      style |-> Tagged("#3")],
     [name |-> <<"j", "s">>, extensions |-> <<<<"j", "s">>, <<"J", "S">>>>,
      style |-> Tagged("#4")],
     [name |-> <<"J", "s">>, extensions |-> <<>>, style |-> Tagged("#5")]}

InitRegistry ==
    /\ EditorIdle
    /\ LexerIdle
    /\ RegistryIdle
    /\ HostIdle

\* a register call on the module's registry
Register(lang) ==
    /\ Len(registered) < MaxRegs
    /\ register(lang)
    /\ UNCHANGED <<editor, lexing, hosting, files, load, SYNTAX_REGISTRY>>

NextRegistry == \E lang \in Definitions : Register(lang)

SpecRegistry == InitRegistry /\ [][NextRegistry]_vars

\* ---------------------------------------------------- load_all_languages
\* a pattern re.compile rejects, such as "(" or "[a"
Invalid == [form |-> "invalid", set |-> {}]

\* registry.py:47: re.compile of the joined alternatives succeeds
Compiles(parts) == \A i \in DOMAIN parts : parts[i].pattern.form # "invalid"

\* A file of the directory: whether json.loads accepts it, whether its
\* extensions value is a list, and the record read from it.
File(parsable, extsList, data) ==
    [parsable |-> parsable, extsList |-> extsList, data |-> data]
Record(name, exts, regexTokens, tag) ==
    [name |-> name, extensions |-> exts, regexTokens |-> regexTokens,
     keywordTypes |-> EmptyDict, styles |-> Tagged(tag)]

IdSpec == [type |-> "id", pattern |-> Plus({"a", "b"})]
FilePool ==
    {File(TRUE, TRUE, Record(<<"P", "y">>, <<<<"P", "Y">>>>, <<IdSpec>>, "#1")),
     File(TRUE, TRUE, Record(<<"j", "s">>, <<<<"j", "s">>>>, <<IdSpec>>, "#2")),
     File(TRUE, TRUE, Record(<<"c">>, <<<<"c">>, <<"h">>>>,
                             <<IdSpec, [type |-> "str", pattern |-> Invalid]>>,
                             "#3")),
     File(TRUE, TRUE, Record(<<"m", "d">>, <<<<"m", "d">>>>,
                             <<[type |-> "", pattern |-> Invalid]>>, "#4")),
     File(FALSE, TRUE, Record(<<>>, <<>>, <<>>, "#5")),
     File(TRUE, TRUE, Record(<<>>, <<<<"t">>>>, <<IdSpec>>, "#6")),
     File(TRUE, FALSE, Record(<<"s", "h">>, <<<<"s", "h">>>>, <<IdSpec>>, "#7"))}

FileLists ==
    {l \in UNION {[1..n -> FilePool] : n \in 0..MaxFiles} :
        \A i, j \in DOMAIN l : i # j => l[i] # l[j]}

InitLoad ==
    /\ EditorIdle
    /\ LexerIdle
    /\ HostIdle
    /\ by_name = EmptyDict
    /\ by_ext = EmptyDict
    /\ registered = <<>>
    /\ files \in FileLists
    /\ load = NotLoading
    /\ SYNTAX_REGISTRY = "unset"

\* registry.py:76-79: json.loads raised, or no name, or extensions that
\* are not a non-empty list
Skipped(f) ==
    \/ ~f.parsable
    \/ f.data.name = <<>>
    \/ ~f.extsList
    \/ f.data.extensions = <<>>

\* registry.py:73-88, code_editor.py:9-10: one pass of the loop over the
\* files.  re.compile's error in _build_lexer (line 82) is raised outside
\* every try of load_all_languages; the import of code_editor catches it.
LoadFile ==
    /\ load.state \in {"start", "loop"}
    /\ load.pos <= Len(files)
    /\ LET f == files[load.pos]
       IN  IF Skipped(f)
           THEN /\ load' = [state |-> "loop", pos |-> load.pos + 1]
                /\ UNCHANGED <<by_name, by_ext, registered, SYNTAX_REGISTRY>>
           ELSE IF ~Compiles(MasterParts(f.data.regexTokens))
           THEN /\ load' = [state |-> "raised", pos |-> load.pos]
                /\ SYNTAX_REGISTRY' = "None"
                /\ UNCHANGED <<by_name, by_ext, registered>>
           ELSE /\ register(LanguageDefinition(f.data))
                /\ load' = [state |-> "loop", pos |-> load.pos + 1]
                /\ UNCHANGED SYNTAX_REGISTRY
    /\ UNCHANGED <<editor, lexing, hosting, files>>

\* registry.py:89, code_editor.py:8: the loop is over, the registry is
\* returned and kept by the editor module
LoadReturn ==
    /\ load.state \in {"start", "loop"}
    /\ load.pos > Len(files)
    /\ load' = [state |-> "returned", pos |-> load.pos]
    /\ SYNTAX_REGISTRY' = "registry"
    /\ UNCHANGED <<editor, lexing, hosting, by_name, by_ext, registered, files>>

NextLoad == LoadFile \/ LoadReturn

SpecLoad == InitLoad /\ [][NextLoad]_vars

\* ------------------------------------------------------------ CodeEditor
\* An editor widget on a loaded module: the registry holds what
\* load_all_languages registered from the directory's files, and
\* _SYNTAX_REGISTRY is that registry, or None when the load raised.
\* A registered definition carries its lexer as the name of the record
\* the closure was built from (registry.py:82-85).
Loaded(e, name, exts) ==
    [e EXCEPT !.name = name, !.extensions = exts]
PyRecord ==
    Loaded(AlphaEntry, <<"P", "y">>, <<<<"p", "y">>, <<"p", "y", "w">>>>)
JsRecord == Loaded(BetaEntry, <<"j", "s">>, <<<<"J", "S">>>>)
BadRecord ==
    Loaded([BetaEntry EXCEPT !.regexTokens =
                                <<[type |-> "str", pattern |-> Invalid]>>],
           <<"c">>, <<<<"c">>>>)
Definition(e, built) ==
    [name |-> e.name, extensions |-> e.extensions, style |-> e.styles,
     lexer |-> built]
PyDef == Definition(PyRecord, "Alpha")
JsDef == Definition(JsRecord, "Beta")

\* the directories an editor module may have been imported over
HostScenarios ==
    {[files |-> <<File(TRUE, TRUE, PyRecord), File(TRUE, TRUE, JsRecord)>>,
      registered |-> <<PyDef, JsDef>>, state |-> "returned", pos |-> 3,
      kept |-> "registry"],
     [files |-> <<File(TRUE, TRUE, PyRecord), File(TRUE, TRUE, BadRecord)>>,
      registered |-> <<PyDef>>, state |-> "raised", pos |-> 2,
      kept |-> "None"],
     [files |-> <<>>, registered |-> <<>>, state |-> "returned", pos |-> 1,
      kept |-> "registry"]}

\* registry.py:19-22 applied to each definition in turn
RECURSIVE NamesAfter(_)
NamesAfter(regs) ==
    IF regs = <<>> THEN EmptyDict
    ELSE LET lang == regs[Len(regs)]
         IN  Put(NamesAfter(SubSeq(regs, 1, Len(regs) - 1)),
                 Lower(lang.name), lang)
RECURSIVE ExtsAfter(_)
ExtsAfter(regs) ==
    IF regs = <<>> THEN EmptyDict
    ELSE LET lang == regs[Len(regs)]
         IN  PutExts(ExtsAfter(SubSeq(regs, 1, Len(regs) - 1)),
                     lang.extensions, lang)

\* code_editor.py:6-10, 44-45: the module imported, the editor constructed
\* and showing a document
InitEditor ==
    /\ text = DocSmall
    /\ HighlighterFresh
    /\ LexerIdle
    /\ \E sc \in HostScenarios :
          /\ files = sc.files
          /\ registered = sc.registered
          /\ by_name = NamesAfter(sc.registered)
          /\ by_ext = ExtsAfter(sc.registered)
          /\ load = [state |-> sc.state, pos |-> sc.pos]
          /\ SYNTAX_REGISTRY = sc.kept
    /\ HostIdle

HostOp(op, arg, pc) == [op |-> op, arg |-> arg, pc |-> pc]

\* code_editor.py:191-197, 200-206: the body shared by the two selections,
\* found being what the registry's lookup returned
ApplySyntax(op, arg, found) ==
    /\ stack = <<>>
    /\ host.pc = "done"
    /\ host' = HostOp(op, arg, "done")
    /\ IF SYNTAX_REGISTRY # "registry" \/ found = <<>>
       THEN UNCHANGED <<editor, active_language>>
       ELSE /\ calls < MaxCalls
            /\ active_language' = found
            /\ Requested(found[1].lexer, TRUE)
            /\ UNCHANGED <<text, edits>>
    /\ UNCHANGED <<lexing, loading>>

\* code_editor.py:190-197
ApplySyntaxByName(name) ==
    ApplySyntax("applySyntaxByName", name, get(name))

\* code_editor.py:199-206
ApplySyntaxForExtension(ext) ==
    ApplySyntax("applySyntaxForExtension", ext, get_for_extension(ext))

\* the text changes and nothing is requested
TextChangedSilent(op, d, pc) ==
    /\ stack = <<>>
    /\ host.pc = "done"
    /\ edits < MaxEdits
    /\ d # text
    /\ text' = d
    /\ edits' = edits + 1
    /\ host' = HostOp(op, d, "done")
    /\ UNCHANGED <<snapshot, pending_language, debounce_timer, timers,
                   busy, stack, calls, lastReq, owed, epi, last, query>>
    /\ UNCHANGED <<active_language, lexing, loading>>

\* code_editor.py:80, 208-211: the document's text becomes d and the
\* textChanged signal runs _on_text_changed; pc is where the operation
\* that changed the text goes on when a language is active
TextChanged(op, d, pc) ==
    /\ stack = <<>>
    /\ host.pc = "done"
    /\ edits < MaxEdits
    /\ d # text
    /\ text' = d
    /\ edits' = edits + 1
    /\ IF active_language # <<>>
       THEN /\ calls < (IF pc = "done" THEN MaxCalls ELSE MaxCalls - 1)
            /\ Requested(active_language[1].lexer, FALSE)
            /\ host' = HostOp(op, d, pc)
       ELSE /\ host' = HostOp(op, d, "done")
            /\ UNCHANGED <<snapshot, pending_language, debounce_timer,
                           timers, busy, stack, calls, lastReq, owed, epi,
                           last, query>>
    /\ UNCHANGED <<active_language, lexing, loading>>

\* the user types or deletes
Edit(d) == TextChanged("edit", d, "done")

\* code_editor.py:180-185: super().setPlainText(text) changes the text and
\* emits textChanged
SetPlainText(d) == TextChanged("setPlainText", d, "trailing")

\* code_editor.py:186-187: the request setPlainText makes itself
SetPlainTextReturn ==
    /\ stack = <<>>
    /\ host.pc = "trailing"
    /\ active_language # <<>>
    /\ calls < MaxCalls
    /\ Requested(active_language[1].lexer, FALSE)
    /\ host' = [host EXCEPT !.pc = "done"]
    /\ UNCHANGED <<text, edits>>
    /\ UNCHANGED <<active_language, lexing, loading>>

SelectNames == {<<"p", "y">>, <<"P", "Y">>, <<"j", "s">>, <<"c">>}
SelectExts == {<<"p", "y", "w">>, <<"j", "S">>, <<"c">>}

NextEditor ==
    \/ \E name \in SelectNames : ApplySyntaxByName(name)
    \/ \E ext \in SelectExts : ApplySyntaxForExtension(ext)
    \/ \E d \in Docs : Edit(d)
    \/ \E d \in Docs : SetPlainText(d)
    \/ SetPlainTextReturn
    \/ \E i \in 1..Len(timers) : host.pc = "done" /\ TimerFire(i)
    \/ ReadReturn(TRUE)
    \/ LexReturn(TRUE)
    \/ AssignStyle
    \/ AssignStarts
    \/ RepaintReturn(TRUE)

SpecEditor == InitEditor /\ [][NextEditor]_vars

\* C11  Snapshot invariant: whenever a block query can run (between events
\* or inside one of the calls a refresh makes), tokens is sorted ascending
\* by start, starts is as long as tokens, and starts[i] is the start of
\* tokens[i] for every index i (so the token starts ascend exactly when the
\* entries of starts do).
SnapshotInvariant ==
    InsideCall =>
        /\ NumInts(starts) = NumTokens(tokens)
        /\ \A i \in 1..NumTokens(tokens) :
              /\ TokAt(tokens, i)[3] = IntAt(starts, i)
              /\ i > 1 => IntAt(starts, i - 1) <= IntAt(starts, i)

\* a later refresh has installed the capped token list and is repainting
IndexedSnapshotRepainted ==
    /\ stack # <<>>
    /\ Top.pc = "repaint"
    /\ last.lang # NoLang
    /\ NumTokens(tokens) = TokenCap
    /\ NumInts(starts) = TokenCap

\* the snapshot one refresh installs: f is a frame or a returned refresh
SnapshotOf(f) ==
    IF f.lang = NoLang
    THEN tokens = <<>> /\ starts = <<>> /\ style = EmptyStyle
    ELSE SnapshotIs(f.lang, f.text, f.lexOK)

\* C12 as stated  The snapshot is replaced by one swap: in every state the
\* three fields are those of one refresh, the latest returned one or the
\* running one.
SnapshotSwappedWhole ==
    \/ SnapshotOf(last)
    \/ stack # <<>> /\ SnapshotOf(Top)

\* C12  The three fields are assigned one after another, and no block query
\* can run between the assignments: every block query answered since the
\* snapshot was last assigned to, inside rehighlight or between events, read
\* tokens, starts and style of one refresh.
QueryNeverSeesTornSnapshot ==
    query.block # <<>> =>
        IF stack # <<>> /\ Top.pc = "repaint" THEN SnapshotOf(Top)
        ELSE SnapshotOf(last)

\* a block is queried inside the rehighlight of a refresh that replaces the
\* snapshot of another language
QueriedDuringReplacement ==
    /\ query.block # <<>>
    /\ stack # <<>>
    /\ Top.pc = "repaint"
    /\ last.lang # NoLang
    /\ last.lang # Top.lang
    /\ NumTokens(tokens) > 0

\* the tokens a linear scan of the whole list finds for block b: those with
\* a registered color whose extent meets [b[1], b[1] + b[2])
Hits(b) ==
    {i \in 1..NumTokens(tokens) :
        LET t == TokAt(tokens, i)
        IN  /\ t[1] \in DOMAIN style
            /\ style[t[1]].color # ""
            /\ Max(t[3], b[1]) < Min(t[4], b[1] + b[2])}

RECURSIVE Ascending(_)
Ascending(S) ==
    IF S = {} THEN <<>>
    ELSE LET m == CHOOSE x \in S : \A y \in S : x <= y
         IN  <<m>> \o Ascending(S \ {m})

\* C13  Block query correctness: the setFormat calls of a block query are,
\* in token order and once each, those of the tokens with a registered
\* color that meet the block, each over the range
\* [max(start, blockStart) - blockStart, min(end, blockEnd) - blockStart);
\* that is what a linear scan of all tokens finds, and nothing for an empty
\* snapshot.
BlockQueryCorrect ==
    query.block # <<>> =>
        LET b == query.block
            ref == Ascending(Hits(b))
        IN  /\ Len(query.formats) = Len(ref)
            /\ \A k \in 1..Len(ref) :
                  LET t == TokAt(tokens, ref[k])
                      lo == Max(t[3], b[1]) - b[1]
                      hi == Min(t[4], b[1] + b[2]) - b[1]
                  IN  query.formats[k] = <<lo, hi - lo, style[t[1]].color>>

\* the keyword "for" at [10, 13) queried for block [12, 20): one range [0, 1)
ClippedKeywordFormatted ==
    /\ text = DocFor
    /\ query.block = <<12, 8>>
    /\ NumTokens(tokens) = 1
    /\ TokAt(tokens, 1) = <<"kw", Word(<<"f", "o", "r">>), 10, 13>>
    /\ query.formats = <<<<0, 1, "#569cd6">>>>

RECURSIVE CharAt(_, _)
CharAt(t, p) ==
    IF p < Head(t).n THEN Head(t).c ELSE CharAt(Tail(t), p - Head(t).n)

\* how many characters from offset p on lie in S
RECURSIVE Stretch(_, _, _)
Stretch(S, t, p) ==
    IF p >= TextLen(t) THEN 0
    ELSE IF CharAt(t, p) \in S THEN 1 + Stretch(S, t, p + 1) ELSE 0

\* the length of the match of a pattern at offset p, 0 for no match
MatchLen(pattern, t, p) ==
    IF pattern.form = "one" THEN Min(1, Stretch(pattern.set, t, p))
    ELSE Stretch(pattern.set, t, p)

\* the entries of the record's list, by position, that can match at p
Candidates(p) ==
    {j \in DOMAIN definition.regexTokens :
        LET spec == definition.regexTokens[j]
        IN  /\ spec.type # ""
            /\ spec.pattern # NoValue
            /\ MatchLen(spec.pattern, lexed.text, p) > 0}

\* the first listed of them
Winner(p) ==
    definition.regexTokens[CHOOSE j \in Candidates(p) :
                              \A k \in Candidates(p) : j <= k]

\* C15  Lexer output ordering: the tokens a lexer returns lie inside the
\* text, 0 <= start <= end <= length, and each ends no later than the next
\* one starts.
LexerOutputOrdered ==
    lexed.called =>
        \A i \in 1..NumTokens(lexed.result) :
            LET tok == TokAt(lexed.result, i)
            IN  /\ 0 <= tok[3]
                /\ tok[3] <= tok[4]
                /\ tok[4] <= TextLen(lexed.text)
                /\ i > 1 => TokAt(lexed.result, i - 1)[4] <= tok[3]

\* three tokens or more, two of them with unmatched text between
TokensWithGap ==
    /\ lexed.called
    /\ NumTokens(lexed.result) >= 3
    /\ \E i \in 2..NumTokens(lexed.result) :
          TokAt(lexed.result, i - 1)[4] < TokAt(lexed.result, i)[3]

\* C16  Keyword promotion: every token carries the text matched at its
\* extent, and its kind is "kw" exactly when the type of the entry that
\* matched is a key of the keyword map and the matched text is one of that
\* type's keywords, the entry's type otherwise; "if x else y" with type "id"
\* and the keywords if and else lexes to kw if [0,2), id x [3,4),
\* kw else [5,9), id y [10,11), with no token for the spaces.
KeywordPromotion ==
    lexed.called =>
        /\ \A i \in 1..NumTokens(lexed.result) :
              LET tok == TokAt(lexed.result, i)
                  type == Winner(tok[3]).type
                  kws == definition.keywordTypes
              IN  /\ TextLen(tok[2]) = tok[4] - tok[3]
                  /\ \A k \in 0..(tok[4] - tok[3] - 1) :
                        CharAt(tok[2], k) = CharAt(lexed.text, tok[3] + k)
                  /\ tok[1] = IF type \in DOMAIN kws /\ tok[2] \in kws[type]
                              THEN "kw" ELSE type
        /\ definition = IfElseEntry /\ lexed.text = DocIfElse =>
              /\ NumTokens(lexed.result) = 4
              /\ TokAt(lexed.result, 1) = <<"kw", Word(<<"i", "f">>), 0, 2>>
              /\ TokAt(lexed.result, 2) = <<"id", Word(<<"x">>), 3, 4>>
              /\ TokAt(lexed.result, 3)
                    = <<"kw", Word(<<"e", "l", "s", "e">>), 5, 9>>
              /\ TokAt(lexed.result, 4) = <<"id", Word(<<"y">>), 10, 11>>

\* "if x else y" has been lexed: keywords promoted, identifiers kept
IfElseLexed ==
    /\ definition = IfElseEntry
    /\ lexed.called
    /\ lexed.text = DocIfElse
    /\ NumTokens(lexed.result) = 4

\* C17  Pattern priority: each token has the extent of the match of the
\* first listed entry that can match at the token's start, and that entry's
\* kind (or "kw" by promotion), whatever the order of the list.
PatternPriority ==
    lexed.called =>
        \A i \in 1..NumTokens(lexed.result) :
            LET tok == TokAt(lexed.result, i)
            IN  /\ Candidates(tok[3]) # {}
                /\ tok[4] - tok[3]
                      = MatchLen(Winner(tok[3]).pattern, lexed.text, tok[3])
                /\ tok[1] \in {Winner(tok[3]).type, "kw"}

\* "ab" lexed with [a] listed before [ab]+: the token at 0 is the one
\* character of the first entry, not the two of the second
FirstListedWins ==
    /\ lexed.called
    /\ definition.regexTokens
          = <<[type |-> "a1", pattern |-> One({"a"})],
              [type |-> "id", pattern |-> Plus({"a", "b"})]>>
    /\ definition.keywordTypes = [k \in {} |-> {}]
    /\ lexed.text = Word(<<"a", "b">>)
    /\ NumTokens(lexed.result) = 2
    /\ TokAt(lexed.result, 1) = <<"a1", Word(<<"a">>), 0, 1>>
    /\ TokAt(lexed.result, 2) = <<"id", Word(<<"b">>), 1, 2>>

\* the positions of the entries that have a type and a pattern
Usable ==
    {j \in DOMAIN definition.regexTokens :
        /\ definition.regexTokens[j].type # ""
        /\ definition.regexTokens[j].pattern # NoValue}

\* C18  Per-entry soft failure: the built lexer's alternatives are the
\* entries that have a type and a pattern, in their original order; when
\* none remains the lexer returns the empty list for every text.
EntrySoftFailure ==
    lexer.built =>
        /\ Len(lexer.master) = Cardinality(Usable)
        /\ \A k \in 1..Len(lexer.master) :
              lexer.master[k] = definition.regexTokens[Ascending(Usable)[k]]
        /\ lexed.called /\ Usable = {} => lexed.result = <<>>

\* an entry without a type listed before a usable one: the lexer built
\* from the rest finds tokens
BadEntrySkipped ==
    /\ lexer.built
    /\ Len(definition.regexTokens) = 2
    /\ definition.regexTokens[1].type = ""
    /\ Len(lexer.master) = 1
    /\ lexed.called
    /\ NumTokens(lexed.result) > 0

\* the records of the directory that are complete and whose patterns are
\* valid regexes, by position
ValidFiles ==
    {i \in DOMAIN files :
        /\ ~Skipped(files[i])
        /\ \A j \in DOMAIN files[i].data.regexTokens :
              files[i].data.regexTokens[j].pattern # Invalid}

\* C19 as stated  A record with a pattern that is no valid regex does not
\* make load_all_languages raise: the load returns a registry to the
\* editor with every valid record registered.
LoadFailureContained ==
    /\ load.state # "raised"
    /\ SYNTAX_REGISTRY # "None"
    /\ load.state = "returned" =>
          \A i \in ValidFiles :
              \E k \in DOMAIN registered :
                  registered[k] = LanguageDefinition(files[i].data)

\* characters equal up to case
UpperChar(c) ==
    CASE c = "p" -> "P" [] c = "y" -> "Y" [] c = "w" -> "W"
      [] c = "j" -> "J" [] c = "s" -> "S" [] OTHER -> c
SameIgnoringCase(a, b) ==
    /\ Len(a) = Len(b)
    /\ \A i \in 1..Len(a) : UpperChar(a[i]) = UpperChar(b[i])

\* the latest registered definition satisfying Q, none as <<>>
Latest(Q(_)) ==
    LET I == {i \in DOMAIN registered : Q(registered[i])}
    IN  IF I = {} THEN <<>>
        ELSE <<registered[CHOOSE i \in I : \A j \in I : j <= i]>>

LookupNames ==
    {<<"p", "y">>, <<"P", "Y">>, <<"p", "Y">>, <<"j", "s">>, <<"J", "S">>,
     <<"p">>, <<"p", "y", "w">>}
LookupExts ==
    {<<"p", "y">>, <<"P", "y">>, <<"P", "Y", "W">>, <<"p", "y", "w">>,
     <<"j", "S">>, <<"j">>, <<"c">>}

\* C20  Registry lookup: after any register calls, get(name) is the latest
\* registered definition whose name equals the argument ignoring case,
\* get_for_extension(ext) the latest one that lists an extension equal to
\* the argument ignoring case, and each is none when there is no such
\* definition.
RegistryLookup ==
    /\ \A name \in LookupNames :
          LET Named(lang) == SameIgnoringCase(lang.name, name)
          IN  get(name) = Latest(Named)
    /\ \A ext \in LookupExts :
          LET Lists(lang) ==
                  \E j \in DOMAIN lang.extensions :
                      SameIgnoringCase(lang.extensions[j], ext)
          IN  get_for_extension(ext) = Latest(Lists)

\* "Py" registered, then "py": get("PY") is the second; the extension
\* "pyw" is still served by the first
LaterRegistrationWins ==
    /\ Len(registered) = 2
    /\ registered[1].name = <<"P", "y">>
    /\ registered[2].name = <<"p", "y">>
    /\ get(<<"P", "Y">>) = <<registered[2]>>
    /\ get_for_extension(<<"P", "Y", "W">>) = <<registered[1]>>
    /\ get(<<"j", "s">>) = <<>>

\* C21  A non-immediate schedule_refresh never lexes inline: the step only
\* records the pending language and arms the single-shot timer with the
\* debounce delay; tokens, starts, style and busy stay as they were and no
\* refresh body is entered.
NonImmediateOnlyArms ==
    [][\A language \in LangNames :
          ScheduleRefresh(language, FALSE) =>
              /\ UNCHANGED <<tokens, starts, style, busy, stack>>
              /\ pending_language' = language
              /\ debounce_timer' # 0
              /\ timers'[debounce_timer'].active
              /\ timers'[debounce_timer'].interval = DebounceMs
              /\ \A i \in 1..Len(timers) :
                    i # debounce_timer' => timers'[i] = timers[i]]_vars

\* a snapshot is installed, another language was requested without
\* immediate, and only the timer shows it
RequestWaitsForTimer ==
    /\ stack = <<>>
    /\ ~busy
    /\ last.lang # NoLang
    /\ NumTokens(tokens) > 0
    /\ pending_language # last.lang
    /\ SnapshotOf(last)
    /\ debounce_timer # 0
    /\ timers[debounce_timer] = [active |-> TRUE, interval |-> DebounceMs]

\* C22 as stated  A refresh started while busy (by a timer or by an
\* immediate request) leaves tokens, starts, style, busy and the pending
\* language alone, enters no body, and returns with the debounce timer
\* armed with the retry delay.
DeferredRefreshRearms ==
    [][(busy /\ (\/ \E i \in 1..Len(timers) : TimerFire(i)
                 \/ \E language \in LangNames :
                       ScheduleRefresh(language, TRUE))) =>
          /\ UNCHANGED <<tokens, starts, style, busy, stack>>
          /\ debounce_timer' # 0
          /\ timers'[debounce_timer'].active
          /\ timers'[debounce_timer'].interval = RetryMs]_vars

\* C23 as stated  Step order of a refresh: busy is set while the text is
\* read and the lexer runs, and it has been cleared when the repaint of the
\* host view is signalled.
RepaintAfterBusyCleared ==
    stack # <<>> =>
        /\ Top.pc \in {"read", "lex", "style", "starts"} => busy
        /\ Top.pc = "repaint" => ~busy

\* C28  busy is false whenever no refresh body is executing, whichever way
\* the last body was left.
BusyOnlyWhileRunning == stack = <<>> => ~busy

\* a refresh was left by the exception of rehighlight
LeftByFailedRepaint ==
    /\ stack = <<>>
    /\ ~busy
    /\ last.escaped = "repaint"

\* C29 as stated  Every immediate request runs its refresh synchronously
\* and leaves every timer as it was, armed or not.
ImmediateLeavesTimers ==
    [][\A language \in LangNames :
          ScheduleRefresh(language, TRUE) =>
              /\ Pushed
              /\ timers' = timers]_vars

\* C29  An immediate request made while no refresh is running enters its
\* refresh in the same step and leaves every timer as it was: an armed
\* timer stays armed with its delay, no timer becomes armed.  A timer that
\* fires while no refresh is running is disarmed and enters one refresh
\* with the language pending at that moment.
ImmediateKeepsTimerWhenNotBusy ==
    [][/\ \A language \in LangNames :
            (~busy /\ ScheduleRefresh(language, TRUE)) =>
                /\ Pushed
                /\ stack'[Len(stack')].lang = language
                /\ timers' = timers
                /\ debounce_timer' = debounce_timer
       /\ \A i \in 1..Len(timers) :
            (~busy /\ TimerFire(i)) =>
                /\ Pushed
                /\ stack'[Len(stack')].lang = pending_language
                /\ ~timers'[i].active]_vars

\* the refresh of an immediate request is running and the timer armed by
\* the earlier request is still armed with the debounce delay
ImmediateRunsTimerArmed ==
    /\ stack # <<>>
    /\ Top.via = "immediate"
    /\ calls = 2
    /\ ~owed
    /\ debounce_timer # 0
    /\ timers[debounce_timer] = [active |-> TRUE, interval |-> DebounceMs]

\* C24  Bounded scan: a block query on a non-empty snapshot visits
\* consecutive tokens beginning one before the first token whose start is
\* not below blockStart (at 0 when there is none before); each visited
\* token is that single look-back, or starts inside the block, or is the one
\* token with start >= blockEnd at which the scan stops; the scan begins at
\* index 0 only when at most one token starts before the block; and a token
\* that starts before the block and extends into it is visited.
BoundedScan ==
    (query.block # <<>> /\ NumTokens(tokens) > 0) =>
        LET bs == query.block[1]
            be == query.block[1] + query.block[2]
            v == query.visited
            n == NumTokens(tokens)
            before == {i \in 1..n : TokAt(tokens, i)[3] < bs}
            k == Cardinality(before)
            StartOf(j) == TokAt(tokens, j + 1)[3]
        IN  /\ v # <<>>
            /\ v[1] = IF k = 0 THEN 0 ELSE k - 1
            /\ v[1] = 0 => k <= 1
            /\ \A m \in 2..Len(v) : v[m] = v[m - 1] + 1
            /\ \A m \in 1..Len(v) :
                  \/ m = 1 /\ StartOf(v[m]) < bs
                  \/ bs <= StartOf(v[m]) /\ StartOf(v[m]) < be
                  \/ StartOf(v[m]) >= be /\ m = Len(v)
            /\ \A i \in before :
                  TokAt(tokens, i)[4] > bs =>
                      \E m \in 1..Len(v) : v[m] = i - 1

\* block [3995, 4005) of the 4000-token snapshot: the look-back and the
\* five tokens inside the block, nothing from the front of the list
ScanStaysNearBlock ==
    /\ query.block = <<3995, 10>>
    /\ NumTokens(tokens) = TokenCap
    /\ query.visited = <<3994, 3995, 3996, 3997, 3998, 3999>>

\* C25  Missing style is not an error: a visited token that meets the
\* block and whose kind has no color gets no format range, the scan goes on
\* to the token after it, and a visited token that meets the block and has
\* a color gets its range, after an uncoloured token too.
MissingStyleSkipped ==
    query.block # <<>> =>
        \A m \in 1..Len(query.visited) :
            LET t == TokAt(tokens, query.visited[m] + 1)
                bs == query.block[1]
                lo == Max(t[3], bs) - bs
                hi == Min(t[4], bs + query.block[2]) - bs
                colored == t[1] \in DOMAIN style /\ style[t[1]].color # ""
            IN  lo < hi =>
                    IF colored
                    THEN \E f \in 1..Len(query.formats) :
                            query.formats[f]
                              = <<lo, hi - lo, style[t[1]].color>>
                    ELSE /\ \A f \in 1..Len(query.formats) :
                              \/ query.formats[f][1] >= hi
                              \/ query.formats[f][1] + query.formats[f][2]
                                    <= lo
                         /\ query.visited[m] + 1 < NumTokens(tokens) =>
                              m < Len(query.visited)

\* "aa;ab": the identifier has no color, the two tokens after it are
\* formatted
UnstyledTokenPassedOver ==
    /\ text = DocMixed
    /\ query.block = <<0, 20>>
    /\ query.visited = <<0, 1, 2>>
    /\ NumTokens(tokens) = 3
    /\ TokAt(tokens, 1)[1] = "id"
    /\ "id" \notin DOMAIN style
    /\ query.formats = <<<<2, 1, "#d4d4d4">>, <<3, 2, "#c586c0">>>>

\* C30 as stated  Registry consistency: every definition get_for_extension
\* returns is the one get returns for that definition's name, so no
\* extension stays mapped to a definition that was replaced under its name.
ExtensionsFollowNames ==
    \A ext \in LookupExts :
        get_for_extension(ext) # <<>> =>
            get(get_for_extension(ext)[1].name) = get_for_extension(ext)

\* C27  A refresh that runs with no pending language (the timer fires, or
\* an immediate request for None is made, while not busy) enters no body:
\* busy is not set, nothing is lexed or repainted, and tokens, starts and
\* style stay those of the previous language.
NoLanguageNoRefresh ==
    [][/\ \A i \in 1..Len(timers) :
            (~busy /\ pending_language = NoLang /\ TimerFire(i)) =>
                UNCHANGED <<tokens, starts, style, busy, stack, last>>
       /\ (~busy /\ ScheduleRefresh(NoLang, TRUE)) =>
                UNCHANGED <<tokens, starts, style, busy, stack, last>>]_vars

\* the latest request was for None and its refresh has run (no timer is
\* left armed): the snapshot is still that of the earlier Alpha refresh
PreviousHighlightingPersists ==
    /\ stack = <<>>
    /\ ~busy
    /\ pending_language = NoLang
    /\ lastReq = NoLang
    /\ ArmedTimers = {}
    /\ last.lang = "Alpha"
    /\ NumTokens(tokens) > 0
    /\ SnapshotOf(last)

\* what a step shows of a request for language L: debounced, immediate, none
IssuedDebounced(L) ==
    /\ calls' = calls + 1
    /\ lastReq' = L
    /\ pending_language' = L
    /\ debounce_timer' # 0
    /\ timers'[debounce_timer'] = [active |-> TRUE, interval |-> DebounceMs]
    /\ UNCHANGED <<busy, stack, snapshot>>
IssuedImmediate(L) ==
    /\ calls' = calls + 1
    /\ lastReq' = L
    /\ pending_language' = L
    /\ Pushed
    /\ stack'[Len(stack')].lang = L
    /\ stack'[Len(stack')].via = "immediate"
    /\ stack'[Len(stack')].text0 = text
    /\ UNCHANGED <<debounce_timer, timers, snapshot>>
NothingIssued ==
    UNCHANGED <<calls, lastReq, pending_language, debounce_timer, timers,
                busy, stack, snapshot>>

\* the definition a selection names: the latest registered one of that
\* name, or listing that extension, when the editor module kept a registry
Selected(h) ==
    LET Named(lang) == SameIgnoringCase(lang.name, h.arg)
        Lists(lang) ==
            \E j \in DOMAIN lang.extensions :
                SameIgnoringCase(lang.extensions[j], h.arg)
    IN  IF SYNTAX_REGISTRY # "registry" THEN <<>>
        ELSE IF h.op = "applySyntaxByName" THEN Latest(Named)
        ELSE Latest(Lists)
Selecting ==
    /\ host'.op \in {"applySyntaxByName", "applySyntaxForExtension"}
    /\ host' # host \/ calls' # calls

\* C26 as stated  Host wiring: every text mutation of an editor issues a
\* non-immediate refresh request with the active language.
TextMutationAlwaysRequests ==
    [][text' # text => calls' = calls + 1 /\ debounce_timer' # 0]_vars

\* C26  Host wiring: a text mutation of an editor whose active language
\* is set issues a non-immediate refresh request with it, and one of an
\* editor with no active language issues none; a selection resolving to a
\* registered definition sets the active language to it and issues an
\* immediate refresh request with it; a selection resolving to no
\* definition changes neither the active language nor the snapshot and
\* issues no request.
HostWiring ==
    [][/\ text' # text =>
            /\ active_language' = active_language
            /\ IF active_language # <<>>
               THEN IssuedDebounced(active_language[1].lexer)
               ELSE NothingIssued
       /\ Selecting =>
            /\ text' = text
            /\ IF Selected(host') # <<>>
               THEN /\ active_language' = Selected(host')
                    /\ IssuedImmediate(Selected(host')[1].lexer)
               ELSE /\ active_language' = active_language
                    /\ NothingIssued]_vars

\* "Py" was selected by the extension "pyw" and refreshed at once; the
\* document was then edited, which armed the debounce timer for it
EditAfterSelection ==
    /\ active_language = <<PyDef>>
    /\ last.via = "immediate"
    /\ last.lang = "Alpha"
    /\ host.op = "edit"
    /\ edits = 1
    /\ text # DocSmall
    /\ stack = <<>>
    /\ pending_language = "Alpha"
    /\ debounce_timer # 0
    /\ timers[debounce_timer] = [active |-> TRUE, interval |-> DebounceMs]

====
